---------------------------- MODULE Spec2Model ----------------------------
(***************************************************************************)
(* pigeoneer: a watcher that tails Path of Exile client logs, extracts     *)
(* trade whispers and relays them to Telegram.                             *)
(*                                                                         *)
(* The module models src/src/pigeoneer/watcher.py (Watcher.run,            *)
(* Watcher.start, Watcher.watch_file, Watcher.follow),                     *)
(* src/src/pigeoneer/cli.py (main) and src/src/pigeoneer/telegram.py       *)
(* (send_message, _send_telegram, _tg_api).                                *)
(*                                                                         *)
(* A text is a sequence of one-character strings.  A log file is the       *)
(* sequence of fragments its producer has written so far; a fragment that  *)
(* ends in "\n" completes a line, one that does not is a partial line.     *)
(* A read position counts the fragments already consumed.                  *)
(***************************************************************************)
EXTENDS Integers, Sequences, FiniteSets, TLC

VARIABLES
    log_paths,  \* start's argument: game id -> path
    exists,     \* path -> whether Path.exists() / open() finds the file
    file,       \* path -> fragments written so far
    running,    \* Watcher.running, the shared stop flag
    watchers,   \* Watcher.watchers, the launched threads (by game id)
    supPc,      \* position of the thread executing Watcher.start
    supIdx,     \* index of start's launch loop / join loop
    pc,         \* game id -> position of its watch_file thread
    pos,        \* game id -> read position of the open handle
    openEnd,    \* game id -> length of the file when its handle was last opened
    yielded,    \* game id -> history of the fragment ranges follow yielded
    sendLog,    \* game id -> history of the send_message calls
    events,     \* number of writes and faults of the environment so far
    sm_text,    \* send_message in isolation: its text argument
    sm_failAt,  \* send_message in isolation: the network call that fails (0: none)
    sm_result,  \* send_message in isolation: <<>> or <<its outcome>>
    environ,    \* what the process finds at startup: .env file, os.environ
    cliPc,      \* position of the main thread in cli.main / Watcher.run
    runResult,  \* <<>> or <<the value Watcher.run returned>>
    exitStatus, \* <<>> or <<the exit status of the process>>
    ex_pieces,  \* extraction in isolation: the pieces the line is made of
    ex_result   \* extraction in isolation: <<>> or <<its outcome>>

vars == <<log_paths, exists, file, running, watchers, supPc, supIdx, pc, pos,
          openEnd, yielded, sendLog, events, sm_text, sm_failAt, sm_result,
          environ, cliPc, runResult, exitStatus, ex_pieces, ex_result>>

watcherVars == <<log_paths, exists, file, running, watchers, supPc, supIdx, pc,
                 pos, openEnd, yielded, sendLog, events>>

sendVars == <<sm_text, sm_failAt, sm_result>>

cliVars == <<environ, cliPc, runResult, exitStatus>>

exVars == <<ex_pieces, ex_result>>

-----------------------------------------------------------------------------
(* Bounds of the model *)

\* writes of the producers and faults of the environment (read errors,
\* disappearing files) during a run, over all files
MaxEvents == 2
\* the longest text given to send_message in isolation spans MaxParts maxima
MaxParts == 3
\* the most pieces between the start and the end of a line handled in isolation
MaxPieces == 3

-----------------------------------------------------------------------------
(* Program constants *)

MAX_LEN == 4096

JOIN_TIMEOUT == 5

GameIds == {1, 2}

\* "Client.txt" is the default of both CLIENT_LOG_POE1 and CLIENT_LOG_POE2
Paths == {"A", "B", "Client.txt"}

-----------------------------------------------------------------------------
(* Texts *)

Min(a, b) == IF a <= b THEN a ELSE b

\* Python's s[a:b] for 0 <= a <= b
Slice(s, a, b) == SubSeq(s, a + 1, Min(b, Len(s)))

\* F(x), with x evaluated once
Once(F(_), x) == CHOOSE r \in {F(v) : v \in {x}} : TRUE

\* the concatenation of a sequence of texts
ConcatV(ss) ==
    LET cat[i \in 1..(Len(ss) + 1)] ==
            IF i > Len(ss) THEN <<>> ELSE ss[i] \o cat[i + 1]
    IN  cat[1]

Concat(ss) == Once(ConcatV, ss)

EndsNL(s) == Len(s) > 0 /\ s[Len(s)] = "\n"


-----------------------------------------------------------------------------
(* telegram.py *)

\* _tg_api: the n-th network call of a send raises RuntimeError iff the
\* endpoint fails it (transport error, HTTP error status, unparsable body);
\* it makes one request and never repeats it.
tg_api(n, failAt) == n = failAt

\* _send_telegram: one call of _tg_api carrying the given text; TRUE iff it raises
send_telegram(n, failAt) == tg_api(n, failAt)

\* Python's range(start, stop, step) for step > 0, as a sequence
Range(start, stop, step) ==
    LET n == IF stop <= start THEN 0 ELSE (stop - start + step - 1) \div step
    IN  [k \in 1..n |-> start + (k - 1) * step]

\* mutant of Parts: every slice one character short
Parts_short(text) ==
    IF Len(text) <= MAX_LEN
    THEN <<text>>
    ELSE LET starts == Range(0, Len(text), MAX_LEN)
         IN  [k \in 1..Len(starts) |->
                Slice(text, starts[k], starts[k] + MAX_LEN - 1)]

\* the texts send_message hands to _send_telegram, in order, if none raises
Parts(text) ==
    IF Len(text) <= MAX_LEN
    THEN <<text>>
    ELSE LET starts == Range(0, Len(text), MAX_LEN)
         IN  [k \in 1..Len(starts) |-> Slice(text, starts[k], starts[k] + MAX_LEN)]

\* mutant of send_message: the loop goes on after a failed part
send_message_continue(text, failAt) ==
    LET parts == Parts(text)
        failing == {k \in 1..Len(parts) : send_telegram(k, failAt)}
    IN  [calls |-> parts, raised |-> failing # {}]

\* send_message(text, ...) when the endpoint fails network call number failAt
\* (none for failAt = 0 or beyond the last): the texts of the network calls
\* made, in order, and whether the exception reached the caller.
send_message(text, failAt) ==
    LET parts == Parts(text)
        failing == {k \in 1..Len(parts) : send_telegram(k, failAt)}
        made == IF failing = {} THEN Len(parts)
                ELSE CHOOSE k \in failing : \A j \in failing : k <= j
    IN  [calls |-> SubSeq(parts, 1, made), raised |-> failing # {}]

-----------------------------------------------------------------------------
(* send_message in isolation *)

CharAt(i) == i % 251

Text(L) == [i \in 1..L |-> CharAt(i)]

TextLens == {L \in {k * MAX_LEN + d : k \in 0..MaxParts, d \in {-1, 0, 1, 808}} : L >= 0}

-----------------------------------------------------------------------------
(* watcher.py: extraction (the body of the for loop of watch_file) *)

Digit == {"0", "1", "2", "3", "4", "5", "6", "7", "8", "9"}

\* what \s matches
Space == {" ", "\t", "\n", "\r", "\f"}

FromMarker == <<"@", "F", "r", "o", "m">>

StashMarker == <<"(", "s", "t", "a", "s", "h">>

BracketMarker == <<"]">>

\* Watcher.__init__'s default currency list
currency == << <<"d", "i", "v", "i", "n", "e">>,
               <<"c", "h", "a", "o", "s">>,
               <<"d", "i", "v", "i", "n", "e", "s">> >>

\* sub occurs in s at index i (1-based)
OccursAt(s, sub, i) ==
    /\ i >= 1
    /\ i + Len(sub) - 1 <= Len(s)
    /\ \A k \in 1..Len(sub) : s[i + k - 1] = sub[k]

\* Python's "sub in s"
Contains(s, sub) == \E i \in 1..(Len(s) + 1) : OccursAt(s, sub, i)

\* Python's s.find(sub) + 1, searching from index `from`: 0 when absent
Find(s, sub, from) ==
    LET hits == {i \in from..(Len(s) + 1) : OccursAt(s, sub, i)}
    IN  IF hits = {} THEN 0 ELSE CHOOSE i \in hits : \A j \in hits : i <= j

\* Python's s.split(sep), for a non-empty sep
Split(s, sep) ==
    LET from[i \in 1..(Len(s) + 2)] ==
            LET j == Find(s, sep, i)
            IN  IF j = 0 THEN <<SubSeq(s, i, Len(s))>>
                ELSE <<SubSeq(s, i, j - 1)>> \o from[j + Len(sep)]
    IN  from[1]

\* mutant of MatchAt: among the alternatives that match, the longest is taken
MatchAt_longest(s, i) ==
    LET runs == {d \in i..Len(s) : \A k \in i..d : s[k] \in Digit}
        cands == {c \in runs \X (i..Len(s)) \X (1..Len(currency)) :
                    /\ c[2] >= c[1]
                    /\ \A k \in (c[1] + 1)..c[2] : s[k] \in Space
                    /\ OccursAt(s, currency[c[3]], c[2] + 1)}
        Pref(c, d) == \/ c[1] > d[1]
                      \/ c[1] = d[1] /\ c[2] > d[2]
                      \/ /\ c[1] = d[1] /\ c[2] = d[2]
                         /\ Len(currency[c[3]]) >= Len(currency[d[3]])
    IN  IF s[i] \notin Digit \/ cands = {}
        THEN [found |-> FALSE, groups |-> <<>>, end |-> i]
        ELSE LET c == CHOOSE c \in cands : \A d \in cands : Pref(c, d)
             IN  [found |-> TRUE,
                  groups |-> <<SubSeq(s, i, c[1]), currency[c[3]]>>,
                  end |-> c[2] + Len(currency[c[3]])]

\* one match of self.pattern, (\d+)\s*(c1|c2|...), starting at index i: the
\* regex engine prefers the longest run of digits, then the longest run of
\* whitespace, then the first alternative in list order.
MatchAt(s, i) ==
    LET runs == {d \in i..Len(s) : \A k \in i..d : s[k] \in Digit}
        cands == {c \in runs \X (i..Len(s)) \X (1..Len(currency)) :
                    /\ c[2] >= c[1]
                    /\ \A k \in (c[1] + 1)..c[2] : s[k] \in Space
                    /\ OccursAt(s, currency[c[3]], c[2] + 1)}
        Pref(c, d) == \/ c[1] > d[1]
                      \/ c[1] = d[1] /\ c[2] > d[2]
                      \/ c[1] = d[1] /\ c[2] = d[2] /\ c[3] <= d[3]
    IN  IF s[i] \notin Digit \/ cands = {}
        THEN [found |-> FALSE, groups |-> <<>>, end |-> i]
        ELSE LET c == CHOOSE c \in cands : \A d \in cands : Pref(c, d)
             IN  [found |-> TRUE,
                  groups |-> <<SubSeq(s, i, c[1]), currency[c[3]]>>,
                  end |-> c[2] + Len(currency[c[3]])]

\* re.findall(self.pattern, s): the groups of the non-overlapping matches,
\* scanning left to right
FindAll(s) ==
    LET from[i \in 1..(Len(s) + 1)] ==
            IF i > Len(s) THEN <<>>
            ELSE LET m == MatchAt(s, i)
                 IN  IF ~m.found THEN from[i + 1]
                     ELSE <<m.groups>> \o from[m.end + 1]
    IN  from[1]

\* Python's sep.join(items)
Join(sep, items) ==
    LET from[i \in 1..Len(items)] ==
            IF i = Len(items) THEN items[i] ELSE items[i] \o sep \o from[i + 1]
    IN  IF items = <<>> THEN <<>> ELSE from[1]

\* mutant of BeforeStash: the whole line is searched
BeforeStash_whole(line) == line

\* line.split('(stash')[0]
BeforeStash(line) == Split(line, StashMarker)[1]

\* match = re.findall(self.pattern, line.split('(stash')[0])
Matches(line) == Once(FindAll, Once(BeforeStash, line))

\* mutant of IsTrade: the marker is not tested
IsTrade_unmarked(line) == Matches(line) # <<>>

\* the line passes both tests: '@From' in line, and match is not empty
IsTrade(line) == Contains(line, FromMarker) /\ Matches(line) # <<>>

\* line.split(']')
Brackets(line) == Split(line, BracketMarker)

\* line.split(']')[1] raises IndexError
RaisesIndexError(line) == Len(Once(Brackets, line)) < 2

\* 'Trade Message': line.split(']')[1]
TradeMessage(line) == Once(Brackets, line)[2]

\* mutant of Pairs: ''.join(x), amount and currency run together
Pairs_glued(match) == [k \in 1..Len(match) |-> Join(<<>>, match[k])]

\* ' '.join(x) for every match x
Pairs(match) == [k \in 1..Len(match) |-> Join(<<" ">>, match[k])]

\* 'Sale Price': ' and '.join(map(lambda x: ' '.join(x), match))
SalePrice(line) ==
    Join(<<" ", "a", "n", "d", " ">>, Once(Pairs, Matches(line)))

\* data = '\n'.join('**{0}** : {1}'.format(k, v) for k, v in trade_request.items())
Field(k, v) == <<"*", "*">> \o k \o <<"*", "*", " ", ":", " ">> \o v

Data(line) ==
    Join(<<"\n">>,
         << Field(<<"T", "r", "a", "d", "e", " ", "M", "e", "s", "s", "a", "g", "e">>,
                  TradeMessage(line)),
            Field(<<"I", "t", "e", "m">>, <<"N", "/", "A">>),
            Field(<<"S", "a", "l", "e", " ", "P", "r", "i", "c", "e">>,
                  SalePrice(line)) >>)

-----------------------------------------------------------------------------
(* The log files and their producers *)

\* "[t]@From 5 chaos\n": a trade whisper with its timestamp bracket
GoodLine == <<"[", "t", "]", "@", "F", "r", "o", "m", " ", "5", " ",
              "c", "h", "a", "o", "s", "\n">>

\* "@From 5 chaos\n": a trade whisper without any ']'
MalformedLine == <<"@", "F", "r", "o", "m", " ", "5", " ",
                   "c", "h", "a", "o", "s", "\n">>

\* "[t]@From 5 ch": the first part of a line, written before the rest
HeadFragment == <<"[", "t", "]", "@", "F", "r", "o", "m", " ", "5", " ", "c", "h">>

Fragments == {GoodLine, MalformedLine, HeadFragment}

\* the paths start is given
UsedPaths == {log_paths[g] : g \in DOMAIN log_paths}

PathOf(g) == log_paths[g]

-----------------------------------------------------------------------------
(* watcher.py: Watcher.follow *)

\* mutant of seek_end: seek(0, 0), the start of the file
seek_start(path) == 0

\* logfile.seek(0, 2): the position it leaves the handle at
seek_end(path) == Len(file[path])

\* logfile.readline() at position p of content f: the position after it.
\* It reads through the first fragment that ends a line, or, when the file
\* ends before any newline, everything that is there.
readline_end(f, p) ==
    LET ends == {j \in (p + 1)..Len(f) : EndsNL(f[j])}
    IN  IF ends = {} THEN Len(f) ELSE CHOOSE j \in ends : \A k \in ends : j <= k

\* the text readline returns (<<>> is Python's '': nothing to read)
readline(f, p) == Concat(SubSeq(f, p + 1, readline_end(f, p)))

\* the text of a yielded range of fragments
LineText(path, rng) == Concat(SubSeq(file[path], rng[1], rng[2]))

-----------------------------------------------------------------------------
(* watcher.py: Watcher.watch_file, one thread per launched game id *)

\* mutant of OnException: no handler, the exception ends the thread
OnException_unhandled == "exited"

\* mutant of AfterSend: the notifier's exception reaches the outer handler
AfterSend_propagated(raised) == IF raised THEN "backoff" ELSE "follow"

\* the outer handler, "except Exception as e": log, time.sleep(5), loop
OnException == "backoff"

\* the inner handler around send_message, "except Exception as e": log only;
\* control returns to the for loop over follow's lines either way
AfterSend(raised) == "follow"

\* mutant of WatchLoopTop: a pipeline whose open fails clears the flag
WatchLoopTop_clears(g) ==
    /\ pc[g] = "top"
    /\ IF ~running
       THEN /\ pc' = [pc EXCEPT ![g] = "exited"]
            /\ UNCHANGED <<pos, openEnd, running>>
       ELSE IF exists[PathOf(g)]
       THEN /\ pc' = [pc EXCEPT ![g] = "follow"]
            /\ pos' = [pos EXCEPT ![g] = seek_end(PathOf(g))]
            /\ openEnd' = [openEnd EXCEPT ![g] = Len(file[PathOf(g)])]
            /\ UNCHANGED running
       ELSE /\ pc' = [pc EXCEPT ![g] = OnException]
            /\ running' = FALSE
            /\ UNCHANGED <<pos, openEnd>>
    /\ UNCHANGED <<log_paths, exists, file, watchers, supPc, supIdx,
                   yielded, sendLog, events, sendVars, cliVars,
                   exVars>>

\* while self.running: ... open(log_path) ... self.follow(logfile) up to its seek
WatchLoopTop(g) ==
    /\ pc[g] = "top"
    /\ IF ~running
       THEN /\ pc' = [pc EXCEPT ![g] = "exited"]
            /\ UNCHANGED <<pos, openEnd>>
       ELSE IF exists[PathOf(g)]
       THEN /\ pc' = [pc EXCEPT ![g] = "follow"]
            /\ pos' = [pos EXCEPT ![g] = seek_end(PathOf(g))]
            /\ openEnd' = [openEnd EXCEPT ![g] = Len(file[PathOf(g)])]
       ELSE /\ pc' = [pc EXCEPT ![g] = OnException]
            /\ UNCHANGED <<pos, openEnd>>
    /\ UNCHANGED <<log_paths, exists, file, running, watchers, supPc, supIdx,
                   yielded, sendLog, events, sendVars, cliVars,
                   exVars>>

\* follow: readline returned '', time.sleep(self.refresh), continue
FollowIdle(g) ==
    /\ pc[g] = "follow"
    /\ readline(file[PathOf(g)], pos[g]) = <<>>
    /\ UNCHANGED vars

\* follow yields a line and the body of the for loop runs on it, up to the
\* call of send_message
FollowRead(g) ==
    /\ pc[g] = "follow"
    /\ \E line \in {readline(file[PathOf(g)], pos[g])},
          e \in {readline_end(file[PathOf(g)], pos[g])} :
           /\ line # <<>>
           /\ pos' = [pos EXCEPT ![g] = e]
           /\ yielded' = [yielded EXCEPT ![g] = Append(@, <<pos[g] + 1, e>>)]
           /\ pc' = [pc EXCEPT ![g] =
                       IF IsTrade(line)
                       THEN IF RaisesIndexError(line) THEN OnException ELSE "send"
                       ELSE "follow"]
    /\ UNCHANGED <<log_paths, exists, file, running, watchers, supPc, supIdx,
                   openEnd, sendLog, events, sendVars, cliVars,
                   exVars>>

\* readline raises (OSError, UnicodeDecodeError): the with block closes the
\* handle and the outer handler runs
ReadError(g) ==
    /\ pc[g] = "follow"
    /\ events < MaxEvents
    /\ events' = events + 1
    /\ pc' = [pc EXCEPT ![g] = OnException]
    /\ UNCHANGED <<log_paths, exists, file, running, watchers, supPc, supIdx,
                   pos, openEnd, yielded, sendLog, sendVars, cliVars,
                   exVars>>

\* send_message(data, ...) inside its try/except, for the line just yielded
SendStep(g) ==
    /\ pc[g] = "send"
    /\ \E rng \in {yielded[g][Len(yielded[g])]} :
       \E data \in {Data(LineText(PathOf(g), rng))} :
       \E failAt \in 0..Len(Parts(data)) :
       \E r \in {send_message(data, failAt)} :
           /\ sendLog' = [sendLog EXCEPT ![g] =
                            Append(@, [line |-> rng, calls |-> Len(r.calls),
                                       raised |-> r.raised])]
           /\ pc' = [pc EXCEPT ![g] = AfterSend(r.raised)]
    /\ UNCHANGED <<log_paths, exists, file, running, watchers, supPc, supIdx,
                   pos, openEnd, yielded, events, sendVars, cliVars,
                   exVars>>

\* mutant of Backoff: the handler tests the flag after its sleep and returns
Backoff_returns(g) ==
    /\ pc[g] = "backoff"
    /\ pc' = [pc EXCEPT ![g] = IF running THEN "top" ELSE "exited"]
    /\ UNCHANGED <<log_paths, exists, file, running, watchers, supPc, supIdx,
                   pos, openEnd, yielded, sendLog, events, sendVars, cliVars,
                   exVars>>

\* time.sleep(5) in the outer handler ends
Backoff(g) ==
    /\ pc[g] = "backoff"
    /\ pc' = [pc EXCEPT ![g] = "top"]
    /\ UNCHANGED <<log_paths, exists, file, running, watchers, supPc, supIdx,
                   pos, openEnd, yielded, sendLog, events, sendVars, cliVars,
                   exVars>>

Pipeline(g) ==
    \/ WatchLoopTop(g)
    \/ FollowRead(g)
    \/ SendStep(g)
    \/ Backoff(g)

-----------------------------------------------------------------------------
(* watcher.py: Watcher.start, executed by the main thread *)

NumIds == Cardinality(DOMAIN log_paths)

\* list(log_paths): the game ids in the order of the dict
Keys ==
    CHOOSE q \in [1..NumIds -> DOMAIN log_paths] :
        \A i, j \in 1..NumIds : i < j => q[i] < q[j]

\* mutant of ShouldLaunch: no existence check
ShouldLaunch_unchecked(g) == TRUE

\* mutant of join: timeout=None
join_untimed(w, timeout) == pc[w] = "exited"

\* "if not log_path.exists(): ... continue" does not apply
ShouldLaunch(g) == exists[PathOf(g)]

\* Thread.is_alive()
is_alive(w) == pc[w] \notin {"idle", "exited"}

\* Thread.join(timeout) returns: the thread has ended, or the timeout (<<>>
\* is Python's None: wait without limit) has run out
join(w, timeout) == pc[w] = "exited" \/ timeout # <<>>

\* one iteration of "for game_id, log_path in log_paths.items()"
StartLaunch ==
    /\ supPc = "launch"
    /\ IF ShouldLaunch(Keys[supIdx])
       THEN /\ watchers' = Append(watchers, Keys[supIdx])
            /\ pc' = [pc EXCEPT ![Keys[supIdx]] = "top"]
       ELSE UNCHANGED <<watchers, pc>>
    /\ IF supIdx = NumIds
       THEN supPc' = "wait" /\ supIdx' = 1
       ELSE supPc' = supPc /\ supIdx' = supIdx + 1
    /\ UNCHANGED <<log_paths, exists, file, running, pos, openEnd, yielded,
                   sendLog, events, sendVars, cliVars,
                   exVars>>

\* "while any(w.is_alive() for w in self.watchers)" finds none alive
StartWaitDone ==
    /\ supPc = "wait"
    /\ \A i \in 1..Len(watchers) : ~is_alive(watchers[i])
    /\ supPc' = "returned"
    /\ UNCHANGED <<log_paths, exists, file, running, watchers, supIdx, pc, pos,
                   openEnd, yielded, sendLog, events, sendVars, cliVars,
                   exVars>>

\* KeyboardInterrupt inside the try: "self.running = False"
Interrupt ==
    /\ supPc = "wait"
    /\ running' = FALSE
    /\ supPc' = "join"
    /\ supIdx' = 1
    /\ UNCHANGED <<log_paths, exists, file, watchers, pc, pos, openEnd, yielded,
                   sendLog, events, sendVars, cliVars,
                   exVars>>

\* one iteration of "for w in self.watchers: w.join(timeout=5)", or its end
StartJoin ==
    /\ supPc = "join"
    /\ IF supIdx > Len(watchers)
       THEN supPc' = "returned" /\ supIdx' = supIdx
       ELSE /\ join(watchers[supIdx], <<JOIN_TIMEOUT>>)
            /\ supIdx' = supIdx + 1
            /\ supPc' = supPc
    /\ UNCHANGED <<log_paths, exists, file, running, watchers, pc, pos, openEnd,
                   yielded, sendLog, events, sendVars, cliVars,
                   exVars>>

Supervisor == StartLaunch \/ StartWaitDone \/ StartJoin

-----------------------------------------------------------------------------
(* The environment *)

\* the producing application appends a fragment to its log
ProducerWrite(p, frag) ==
    /\ p \in UsedPaths
    /\ exists[p]
    /\ events < MaxEvents
    /\ events' = events + 1
    /\ file' = [file EXCEPT ![p] = Append(@, frag)]
    /\ UNCHANGED <<log_paths, exists, running, watchers, supPc, supIdx, pc, pos,
                   openEnd, yielded, sendLog, sendVars, cliVars,
                   exVars>>

\* the path stops resolving (renamed away, volume gone)
FileRemoved(p) ==
    /\ p \in UsedPaths
    /\ exists[p]
    /\ events < MaxEvents
    /\ events' = events + 1
    /\ exists' = [exists EXCEPT ![p] = FALSE]
    /\ UNCHANGED <<log_paths, file, running, watchers, supPc, supIdx, pc, pos,
                   openEnd, yielded, sendLog, sendVars, cliVars,
                   exVars>>

\* the path resolves (again)
FileAppears(p) ==
    /\ p \in UsedPaths
    /\ ~exists[p]
    /\ exists' = [exists EXCEPT ![p] = TRUE]
    /\ UNCHANGED <<log_paths, file, running, watchers, supPc, supIdx, pc, pos,
                   openEnd, yielded, sendLog, events, sendVars, cliVars,
                   exVars>>

Environment ==
    \/ \E p \in Paths, frag \in Fragments : ProducerWrite(p, frag)
    \/ \E p \in Paths : FileRemoved(p)
    \/ \E p \in Paths : FileAppears(p)
    \/ \E g \in GameIds : ReadError(g)
    \/ Interrupt

-----------------------------------------------------------------------------
(* The watcher *)

\* start(chat_id, token, log_paths): one path per game id
PathChoices == {[g \in GameIds |-> IF g = 1 THEN "A" ELSE "B"]}

Init ==
    /\ log_paths \in PathChoices
    /\ exists \in {x \in [Paths -> BOOLEAN] :
                     \A p \in Paths : p \notin UsedPaths => ~x[p]}
    /\ file = [p \in Paths |-> IF exists[p] THEN <<GoodLine>> ELSE <<>>]
    /\ running = TRUE
    /\ watchers = <<>>
    /\ supPc = "launch"
    /\ supIdx = 1
    /\ pc = [g \in GameIds |-> "idle"]
    /\ pos = [g \in GameIds |-> 0]
    /\ openEnd = [g \in GameIds |-> 0]
    /\ yielded = [g \in GameIds |-> <<>>]
    /\ sendLog = [g \in GameIds |-> <<>>]
    /\ events = 0
    /\ sm_text = <<>>
    /\ sm_failAt = 0
    /\ sm_result = <<>>
    /\ environ = [env_file |-> "ok", TG_TOKEN |-> TRUE, TG_CHAT |-> TRUE,
                  CLIENT_LOG_POE1 |-> TRUE, CLIENT_LOG_POE2 |-> TRUE]
    /\ cliPc = "start"
    /\ runResult = <<>>
    /\ exitStatus = <<>>
    /\ ex_pieces = <<>>
    /\ ex_result = <<>>

Next ==
    \/ Supervisor
    \/ \E g \in GameIds : Pipeline(g)
    \/ \E g \in GameIds : FollowIdle(g)
    \/ Environment

Spec == Init /\ [][Next]_vars

\* Threads are scheduled fairly: a thread that can take a step takes it.
\* The environment (producers, faults, the interrupt) owes nothing.
FairSpec ==
    /\ Init
    /\ [][Next]_vars
    /\ WF_vars(Supervisor)
    /\ \A g \in GameIds : WF_vars(Pipeline(g))

\* The same, asking fairness of the main thread only.
FairStart ==
    /\ Init
    /\ [][Next]_vars
    /\ WF_vars(Supervisor)

-----------------------------------------------------------------------------
(* send_message in isolation *)

InitSend ==
    /\ log_paths = [g \in GameIds |-> "A"]
    /\ exists = [p \in Paths |-> FALSE]
    /\ file = [p \in Paths |-> <<>>]
    /\ running = TRUE
    /\ watchers = <<>>
    /\ supPc = "launch"
    /\ supIdx = 1
    /\ pc = [g \in GameIds |-> "idle"]
    /\ pos = [g \in GameIds |-> 0]
    /\ openEnd = [g \in GameIds |-> 0]
    /\ yielded = [g \in GameIds |-> <<>>]
    /\ sendLog = [g \in GameIds |-> <<>>]
    /\ events = 0
    /\ sm_text \in {Text(L) : L \in TextLens}
    /\ sm_failAt \in 0..(MaxParts + 1)
    /\ sm_result = <<>>
    /\ environ = [env_file |-> "ok", TG_TOKEN |-> TRUE, TG_CHAT |-> TRUE,
                  CLIENT_LOG_POE1 |-> TRUE, CLIENT_LOG_POE2 |-> TRUE]
    /\ cliPc = "start"
    /\ runResult = <<>>
    /\ exitStatus = <<>>
    /\ ex_pieces = <<>>
    /\ ex_result = <<>>

CallSendMessage ==
    /\ sm_result = <<>>
    /\ sm_result' = <<send_message(sm_text, sm_failAt)>>
    /\ UNCHANGED <<sm_text, sm_failAt, watcherVars, cliVars, exVars>>

NextSend == CallSendMessage

SpecSend == InitSend /\ [][NextSend]_vars

-----------------------------------------------------------------------------
(* cli.py: main, and watcher.py: Watcher.run *)

\* Path(os.getenv("CLIENT_LOG_POE<g>", "Client.txt")): the configured log of
\* each game, or the default
game_client_logs ==
    [g \in GameIds |->
        IF g = 1
        THEN IF environ.CLIENT_LOG_POE1 THEN "A" ELSE "Client.txt"
        ELSE IF environ.CLIENT_LOG_POE2 THEN "B" ELSE "Client.txt"]

\* {id: path for id, path in game_client_logs.items() if path.exists()}
valid_logs ==
    [g \in {h \in GameIds : exists[game_client_logs[h]]} |->
        game_client_logs[g]]

\* main ends without calling sys.exit: whatever run returned, the interpreter
\* ends with status 0
ExitOfMain(result) == 0

\* "watcher = Watcher(show_header=True)", and run is entered
CliMain ==
    /\ cliPc = "main"
    /\ cliPc' = "run"
    /\ UNCHANGED <<environ, runResult, exitStatus, watcherVars, sendVars,
                   exVars>>

\* run, from its entry to its first return, its call of start or the
\* exception of load_dotenv that main catches
RunConfig ==
    /\ cliPc = "run"
    /\ IF environ.env_file = "missing"
       THEN /\ runResult' = <<1>>
            /\ cliPc' = "returned"
            /\ UNCHANGED <<exitStatus, log_paths, supPc>>
       ELSE IF environ.env_file = "unreadable"
       THEN /\ exitStatus' = <<1>>
            /\ cliPc' = "exited"
            /\ UNCHANGED <<runResult, log_paths, supPc>>
       ELSE IF DOMAIN valid_logs = {}
       THEN /\ runResult' = <<1>>
            /\ cliPc' = "returned"
            /\ UNCHANGED <<exitStatus, log_paths, supPc>>
       ELSE IF ~(environ.TG_TOKEN /\ environ.TG_CHAT)
       THEN /\ runResult' = <<1>>
            /\ cliPc' = "returned"
            /\ UNCHANGED <<exitStatus, log_paths, supPc>>
       ELSE /\ log_paths' = valid_logs
            /\ supPc' = "launch"
            /\ cliPc' = "start"
            /\ UNCHANGED <<runResult, exitStatus>>
    /\ UNCHANGED <<environ, exists, file, running, watchers, supIdx, pc, pos,
                   openEnd, yielded, sendLog, events, sendVars, exVars>>

\* start has returned: "return 0"
RunReturn ==
    /\ cliPc = "start"
    /\ supPc = "returned"
    /\ runResult' = <<0>>
    /\ cliPc' = "returned"
    /\ UNCHANGED <<environ, exitStatus, watcherVars, sendVars, exVars>>

\* run has returned to main, main ends and the process with it
CliExit ==
    /\ cliPc = "returned"
    /\ exitStatus' = <<ExitOfMain(runResult[1])>>
    /\ cliPc' = "exited"
    /\ UNCHANGED <<environ, runResult, watcherVars, sendVars, exVars>>

Cli == CliMain \/ RunConfig \/ RunReturn \/ CliExit

\* what a process can find at startup
Environs ==
    [env_file : {"missing", "unreadable", "ok"},
     TG_TOKEN : BOOLEAN, TG_CHAT : BOOLEAN,
     CLIENT_LOG_POE1 : BOOLEAN, CLIENT_LOG_POE2 : BOOLEAN]

InitCli ==
    /\ environ \in Environs
    /\ cliPc = "main"
    /\ runResult = <<>>
    /\ exitStatus = <<>>
    /\ log_paths = <<>>
    /\ exists \in {x \in [Paths -> BOOLEAN] :
                     \A p \in Paths :
                         (\A g \in GameIds : game_client_logs[g] # p) => ~x[p]}
    /\ file = [p \in Paths |-> IF exists[p] THEN <<GoodLine>> ELSE <<>>]
    /\ running = TRUE
    /\ watchers = <<>>
    /\ supPc = "idle"
    /\ supIdx = 1
    /\ pc = [g \in GameIds |-> "idle"]
    /\ pos = [g \in GameIds |-> 0]
    /\ openEnd = [g \in GameIds |-> 0]
    /\ yielded = [g \in GameIds |-> <<>>]
    /\ sendLog = [g \in GameIds |-> <<>>]
    /\ events = 0
    /\ sm_text = <<>>
    /\ sm_failAt = 0
    /\ sm_result = <<>>
    /\ ex_pieces = <<>>
    /\ ex_result = <<>>

\* the threads of the process run until the process has ended
NextCli == Cli \/ (cliPc # "exited" /\ Next)

SpecCli == InitCli /\ [][NextCli]_vars

-----------------------------------------------------------------------------
(* watch_file's handling of one yielded line, in isolation *)

\* the texts lines are made of: "[t] @From bob:", "@From bob:", " 5 divine",
\* " 2 divine", " and 30 chaos", " 7  chaos", " 4 divines", " 3 chaosorb",
\* " 4 exalted", " (stash", " ]", "\n"; "none" and "eof" are empty
PieceText(p) ==
    CASE    p = "hdr" -> <<"[", "t", "]", " ", "@", "F", "r", "o", "m", " ", "b", "o", "b",
                ":">>
      []  p = "from" -> <<"@", "F", "r", "o", "m", " ", "b", "o", "b", ":">>
      []  p = "5d" -> <<" ", "5", " ", "d", "i", "v", "i", "n", "e">>
      []  p = "2d" -> <<" ", "2", " ", "d", "i", "v", "i", "n", "e">>
      []  p = "30c" -> <<" ", "a", "n", "d", " ", "3", "0", " ", "c", "h", "a", "o", "s">>
      []  p = "7c" -> <<" ", "7", " ", " ", "c", "h", "a", "o", "s">>
      []  p = "4ds" -> <<" ", "4", " ", "d", "i", "v", "i", "n", "e", "s">>
      []  p = "orb" -> <<" ", "3", " ", "c", "h", "a", "o", "s", "o", "r", "b">>
      []  p = "ex" -> <<" ", "4", " ", "e", "x", "a", "l", "t", "e", "d">>
      []  p = "stash" -> <<" ", "(", "s", "t", "a", "s", "h">>
      []  p = "rb" -> <<" ", "]">>
      []  p = "nl" -> <<"\n">>
      [] OTHER -> <<>>

\* how a line starts, what follows, and how it ends (at the end of the file
\* readline returns a line without its newline)
Heads == {"none", "hdr", "from"}

Body == {"5d", "2d", "30c", "7c", "4ds", "orb", "ex", "stash", "rb"}

Tails == {"nl", "eof"}

LineOf(pieces) == Concat([k \in 1..Len(pieces) |-> PieceText(pieces[k])])

\* the body of "for line in loglines" up to the call of send_message: what
\* becomes of the line ("none": nothing is built, "IndexError": building the
\* request raises, "event": the request is built and send_message called),
\* the matches found (none are looked for without the marker) and the
\* fields of trade_request
Extraction(line) ==
    IF ~IsTrade(line)
    THEN [outcome |-> "none",
          match |-> IF Contains(line, FromMarker) THEN Matches(line) ELSE <<>>,
          message |-> <<>>, price |-> <<>>]
    ELSE IF RaisesIndexError(line)
    THEN [outcome |-> "IndexError", match |-> Matches(line),
          message |-> <<>>, price |-> <<>>]
    ELSE [outcome |-> "event", match |-> Matches(line),
          message |-> TradeMessage(line), price |-> SalePrice(line)]

InitExtract ==
    /\ ex_pieces \in {<<h>> \o b \o <<t>> :
                        h \in Heads,
                        b \in UNION {[1..k -> Body] : k \in 0..MaxPieces},
                        t \in Tails}
    /\ ex_result = <<>>
    /\ log_paths = [g \in GameIds |-> "A"]
    /\ exists = [p \in Paths |-> FALSE]
    /\ file = [p \in Paths |-> <<>>]
    /\ running = TRUE
    /\ watchers = <<>>
    /\ supPc = "launch"
    /\ supIdx = 1
    /\ pc = [g \in GameIds |-> "idle"]
    /\ pos = [g \in GameIds |-> 0]
    /\ openEnd = [g \in GameIds |-> 0]
    /\ yielded = [g \in GameIds |-> <<>>]
    /\ sendLog = [g \in GameIds |-> <<>>]
    /\ events = 0
    /\ sm_text = <<>>
    /\ sm_failAt = 0
    /\ sm_result = <<>>
    /\ environ = [env_file |-> "ok", TG_TOKEN |-> TRUE, TG_CHAT |-> TRUE,
                  CLIENT_LOG_POE1 |-> TRUE, CLIENT_LOG_POE2 |-> TRUE]
    /\ cliPc = "start"
    /\ runResult = <<>>
    /\ exitStatus = <<>>

\* one iteration of "for line in loglines"; sent holds the outcome of the
\* call of send_message, if there was one (its first network call fails or
\* none does)
HandleLine ==
    /\ ex_result = <<>>
    /\ \E line \in {LineOf(ex_pieces)}, failAt \in 0..1 :
          \E r \in {Extraction(line)} :
             ex_result' =
                <<[sent |-> IF r.outcome = "event"
                            THEN <<send_message(Data(line), failAt)>>
                            ELSE <<>>] @@ r>>
    /\ UNCHANGED <<ex_pieces, watcherVars, sendVars, cliVars>>

NextExtract == HandleLine

SpecExtract == InitExtract /\ [][NextExtract]_vars

-----------------------------------------------------------------------------
(* Properties *)

Launched == {watchers[i] : i \in 1..Len(watchers)}

Last(q) == q[Len(q)]

\* the state of one pipeline
PipelineState(g) == <<pc[g], pos[g], openEnd[g], yielded[g], sendLog[g]>>

\* C1: once the stop flag is set, every launched pipeline eventually exits,
\* also one that idles in follow with nothing to read and no error.
C1_StopObserved ==
    (~running) ~> (\A g \in Launched : pc[g] = "exited")

\* C2: a candidate line without ']' is skipped alone: the step that reads it
\* leaves the pipeline tailing (not in backoff) with its handle open.
C2_MalformedSkipped ==
    [][\A g \in GameIds :
         (/\ pc[g] = "follow"
          /\ yielded'[g] # yielded[g]
          /\ IsTrade(readline(file[PathOf(g)], pos[g]))
          /\ ~Contains(readline(file[PathOf(g)], pos[g]), BracketMarker))
         => pc'[g] = "follow"]_vars

\* C3: a send_message call that raises leaves its pipeline tailing at the
\* same position and changes no other pipeline, and no yielded line is ever
\* given to send_message twice.
C3_SendFailureContained ==
    [][\A g \in GameIds :
         (sendLog'[g] # sendLog[g]) =>
            /\ Last(sendLog'[g]).raised =>
                  /\ pc'[g] = "follow"
                  /\ pos'[g] = pos[g]
                  /\ openEnd'[g] = openEnd[g]
                  /\ yielded'[g] = yielded[g]
                  /\ \A h \in GameIds \ {g} : PipelineState(h)' = PipelineState(h)
            /\ \A i \in 1..Len(sendLog[g]) :
                  sendLog[g][i].line # Last(sendLog'[g]).line]_vars

\* C3's case: a send failed and the same pipeline yielded a later line since
C3_Witness ==
    \E g \in GameIds : \E i \in 1..Len(sendLog[g]) :
        /\ sendLog[g][i].raised
        /\ \E j \in 1..Len(yielded[g]) : yielded[g][j][1] > sendLog[g][i].line[2]

\* an I/O error of pipeline g: it enters backoff without having yielded
IOErrorStep(g) ==
    /\ pc[g] \in {"top", "follow"}
    /\ pc'[g] = "backoff"
    /\ yielded'[g] = yielded[g]

\* C4: an I/O error on opening or reading a source puts that pipeline, and
\* no other, into backoff; from backoff it returns to the loop top, where it
\* exits if the stop flag is set, reopens the same path at its end if the
\* file is there, and enters backoff again if it is not.
C4_BackoffPerSource ==
    [][\A g \in GameIds :
         /\ IOErrorStep(g) =>
               \A h \in GameIds \ {g} : PipelineState(h)' = PipelineState(h)
         /\ (pc[g] = "backoff" /\ pc'[g] # "backoff") => pc'[g] = "top"
         /\ (pc[g] = "top" /\ pc'[g] # "top") =>
               IF ~running THEN pc'[g] = "exited"
               ELSE IF exists[PathOf(g)]
               THEN pc'[g] = "follow" /\ pos'[g] = Len(file[PathOf(g)])
               ELSE pc'[g] = "backoff"]_vars

\* C4's case: one source is missing and its pipeline waits in backoff, having
\* yielded nothing, while another pipeline has sent a notification
C4_Witness ==
    \E g \in GameIds, h \in GameIds :
        /\ g # h
        /\ pc[g] = "backoff"
        /\ ~exists[PathOf(g)]
        /\ yielded[g] = <<>>
        /\ sendLog[h] # <<>>

\* C5: after the interrupt the stop flag stays set and start returns,
\* whether or not the pipelines have exited.
C5_StartReturns ==
    /\ (supPc = "join") ~> (supPc = "returned")
    /\ [](supPc = "join" => ~running)

\* C5's case: start has returned after an interrupt and a pipeline still runs
C5_Witness ==
    /\ supPc = "returned"
    /\ ~running
    /\ \E g \in Launched : is_alive(g)

\* C6: every range follow yields lies after the end the file had when the
\* handle was opened, and after every range yielded before in the run.
C6_NoReplay ==
    [][\A g \in GameIds :
         (yielded'[g] # yielded[g]) =>
            /\ Last(yielded'[g])[1] > openEnd[g]
            /\ \A i \in 1..Len(yielded[g]) :
                  yielded[g][i][2] < Last(yielded'[g])[1]]_vars

\* C6's case: a pipeline yielded, reopened its file, and yielded again
C6_Witness ==
    \E g \in GameIds : \E i \in 1..Len(yielded[g]), j \in 1..Len(yielded[g]) :
        /\ yielded[g][i][2] <= openEnd[g]
        /\ openEnd[g] < yielded[g][j][1]

\* C7: follow yields only complete lines: every yielded range ends with a
\* fragment that ends in a newline.
C7_OnlyCompleteLines ==
    \A g \in GameIds : \A i \in 1..Len(yielded[g]) :
        EndsNL(file[PathOf(g)][yielded[g][i][2]])

\* ceil(a / b) for b > 0
CeilDiv(a, b) == (a + b - 1) \div b

\* text[i*M : min((i+1)*M, L)] for the 0-indexed chunk i of a text of length L
ChunkOf(text, i) ==
    [j \in 1..(Min((i + 1) * MAX_LEN, Len(text)) - i * MAX_LEN) |->
        text[i * MAX_LEN + j]]

\* the calls of a finished send are the first n chunks of the text, in order
CallsAreChunks(n) ==
    /\ Len(sm_result[1].calls) = n
    /\ \A i \in 0..(n - 1) : sm_result[1].calls[i + 1] = ChunkOf(sm_text, i)

\* C8 as stated: a send of a text of any length L, 0 included, in which no
\* call fails makes ceil(L/M) calls, call i carrying chunk i, in order.
C8_Original ==
    (sm_result # <<>> /\ ~sm_result[1].raised) =>
        CallsAreChunks(CeilDiv(Len(sm_text), MAX_LEN))

\* C8, amended: the same for L >= 1; for L = 0 there is exactly one call and
\* it carries the empty text.
C8_SplitInOrder ==
    (sm_result # <<>> /\ ~sm_result[1].raised) =>
        IF Len(sm_text) = 0
        THEN sm_result[1].calls = << <<>> >>
        ELSE CallsAreChunks(CeilDiv(Len(sm_text), MAX_LEN))

\* C8's case: a text whose length is a multiple of the maximum, sent in
\* several calls that all succeeded
C8_Witness ==
    /\ sm_result # <<>>
    /\ ~sm_result[1].raised
    /\ Len(sm_text) > MAX_LEN
    /\ Len(sm_text) % MAX_LEN = 0

\* C9: in a multi-chunk send whose call for chunk k (1-indexed) fails, exactly
\* the calls for chunks 1..k are made, each once and in order, and the
\* failure reaches the caller.
C9_AbortOnFailure ==
    (/\ sm_result # <<>>
     /\ Len(sm_text) > MAX_LEN
     /\ sm_failAt \in 1..CeilDiv(Len(sm_text), MAX_LEN)) =>
        /\ sm_result[1].raised
        /\ CallsAreChunks(sm_failAt)

\* C9's case: a send of three or more chunks whose second call failed
C9_Witness ==
    /\ sm_result # <<>>
    /\ sm_failAt = 2
    /\ CeilDiv(Len(sm_text), MAX_LEN) >= 3
    /\ sm_result[1].raised

\* the main thread takes a step
StartSteps == supPc' # supPc \/ supIdx' # supIdx

\* C10: each iteration of start's launch loop launches the pipeline of its
\* source iff the file exists then; nothing is launched after the loop; no
\* source has two pipelines.
C10_LaunchOnlyExisting ==
    [][/\ (supPc = "launch" /\ StartSteps) =>
             IF exists[PathOf(Keys[supIdx])]
             THEN /\ watchers' = Append(watchers, supIdx)
                  /\ pc[supIdx] = "idle" /\ pc'[supIdx] = "top"
             ELSE /\ watchers' = watchers
                  /\ pc'[supIdx] = "idle"
       /\ (supPc # "launch") =>
             /\ watchers' = watchers
             /\ \A g \in GameIds : pc[g] = "idle" => pc'[g] = "idle"
       /\ \A i \in 1..Len(watchers'), j \in 1..Len(watchers') :
             watchers'[i] = watchers'[j] => i = j]_vars

\* C10's case: the loop is over, one source was launched, and the file of a
\* source skipped at start is there now
C10_Witness ==
    /\ supPc # "launch"
    /\ watchers # <<>>
    /\ \E g \in GameIds : pc[g] = "idle" /\ exists[PathOf(g)]

\* the configuration the process found is unusable: no .env file, no token or
\* chat id, or (run returned 1 for it) no configured log existed
ConfigAbsent ==
    \/ environ.env_file = "missing"
    \/ ~environ.TG_TOKEN
    \/ ~environ.TG_CHAT
    \/ runResult = <<1>>

\* C11: a process started through cli.main that finds no .env file, no
\* TG_TOKEN or TG_CHAT, or no existing configured log ends with a non-zero
\* exit status and has started no pipeline.
C11_ExitsNonZero ==
    (cliPc = "exited" /\ ConfigAbsent) =>
        /\ exitStatus # <<0>>
        /\ watchers = <<>>

\* what a piece adds to the matches of the pattern (\d+)\s*(divine|chaos|divines),
\* rendered as "<amount> <currency>": "5 divine", "2 divine", "30 chaos",
\* "7 chaos", "4 divine" for " 4 divines" and "3 chaos" for " 3 chaosorb";
\* <<>> for a piece without a match
Rendered(p) ==
    CASE p = "5d" -> <<"5", " ", "d", "i", "v", "i", "n", "e">>
      [] p = "2d" -> <<"2", " ", "d", "i", "v", "i", "n", "e">>
      [] p = "30c" -> <<"3", "0", " ", "c", "h", "a", "o", "s">>
      [] p = "7c" -> <<"7", " ", "c", "h", "a", "o", "s">>
      [] p = "4ds" -> <<"4", " ", "d", "i", "v", "i", "n", "e">>
      [] p = "orb" -> <<"3", " ", "c", "h", "a", "o", "s">>
      [] OTHER -> <<>>

\* the place of the first " (stash" among the pieces, or one past the last
FirstStash(pieces) ==
    LET at == {k \in 1..Len(pieces) : pieces[k] = "stash"}
    IN  IF at = {} THEN Len(pieces) + 1
        ELSE CHOOSE k \in at : \A j \in at : k <= j

\* the pieces before the first " (stash" that hold a match, left to right
AmountsBeforeStash(pieces) ==
    SelectSeq(SubSeq(pieces, 1, FirstStash(pieces) - 1),
              LAMBDA p : Rendered(p) # <<>>)

HasMarker(pieces) == pieces[1] \in {"hdr", "from"}

HasBracket(pieces) ==
    pieces[1] = "hdr" \/ \E k \in 1..Len(pieces) : pieces[k] = "rb"

\* C12 as stated: every line with the '@From' marker and at least one match
\* before the first '(stash' produces an event with as many pairs as there are
\* matches before the first '(stash'.
C12_Original ==
    (/\ ex_result # <<>>
     /\ HasMarker(ex_pieces)
     /\ AmountsBeforeStash(ex_pieces) # <<>>) =>
        /\ ex_result[1].outcome = "event"
        /\ Len(ex_result[1].match) = Len(AmountsBeforeStash(ex_pieces))

\* C12, amended: every line with the '@From' marker, at least one ']' and at
\* least one match before the first '(stash' produces an event with as many
\* pairs as there are matches before the first '(stash'; matches after it
\* are not counted.
C12_PairCount ==
    (/\ ex_result # <<>>
     /\ HasMarker(ex_pieces)
     /\ HasBracket(ex_pieces)
     /\ AmountsBeforeStash(ex_pieces) # <<>>) =>
        /\ ex_result[1].outcome = "event"
        /\ Len(ex_result[1].match) = Len(AmountsBeforeStash(ex_pieces))

\* C12's case: an event built from a line with an amount before the first
\* '(stash' and another after it
C12_Witness ==
    /\ ex_result # <<>>
    /\ ex_result[1].outcome = "event"
    /\ \E k \in 1..Len(ex_pieces) :
          /\ k > FirstStash(ex_pieces)
          /\ Rendered(ex_pieces[k]) # <<>>

\* the pieces whose amount is in a configured currency, and those whose amount
\* is in another one (" 3 chaosorb", " 4 exalted")
Configured(p) == p \in {"5d", "2d", "30c", "7c", "4ds"}

Foreign(p) == p \in {"orb", "ex"}

\* C13: digits followed by a currency name outside the configured set, also
\* one that begins with a configured name, produce no match: a line whose
\* only amounts are in such currencies has no match and yields no event.
C13_ForeignNoMatch ==
    (/\ ex_result # <<>>
     /\ \E k \in 1..Len(ex_pieces) : Foreign(ex_pieces[k])
     /\ \A k \in 1..Len(ex_pieces) : ~Configured(ex_pieces[k])) =>
        /\ ex_result[1].match = <<>>
        /\ ex_result[1].outcome = "none"

\* all of the text after the first ']' of a line that has one
AfterFirstBracket(line) ==
    LET at == {i \in 1..Len(line) : line[i] = "]"}
        first == CHOOSE i \in at : \A j \in at : i <= j
    IN  SubSeq(line, first + 1, Len(line))

\* C14: the 'Trade Message' of every event is all of the text that follows
\* the first ']' of the line the event was built from, further ']' included.
C14_MessageAfterFirstBracket ==
    (ex_result # <<>> /\ ex_result[1].outcome = "event") =>
        ex_result[1].message = Once(AfterFirstBracket, LineOf(ex_pieces))

\* the amounts before the first " (stash", each as "<amount> <currency>", in
\* the order of the line and with " and " between them
ExpectedPrice(pieces) ==
    LET items == AmountsBeforeStash(pieces)
        upto[i \in 0..Len(items)] ==
            IF i = 0 THEN <<>>
            ELSE IF i = 1 THEN Rendered(items[1])
            ELSE upto[i - 1] \o <<" ", "a", "n", "d", " ">> \o Rendered(items[i])
    IN  upto[Len(items)]

\* C15: the 'Sale Price' of an event is its matches in the order of the line,
\* each as "<amount> <currency>" with one space, joined by " and "; a line
\* with " 5 divine" gives "5 divine", one with " 2 divine and 30 chaos" gives
\* "2 divine and 30 chaos".
C15_SalePrice ==
    (ex_result # <<>> /\ ex_result[1].outcome = "event") =>
        /\ ex_result[1].price = ExpectedPrice(ex_pieces)
        /\ Len(ex_pieces) = 3 /\ SubSeq(ex_pieces, 1, 2) = <<"hdr", "5d">> =>
              ex_result[1].price = <<"5", " ", "d", "i", "v", "i", "n", "e">>
        /\ Len(ex_pieces) = 4 /\ SubSeq(ex_pieces, 1, 3) = <<"hdr", "2d", "30c">> =>
              ex_result[1].price =
                  <<"2", " ", "d", "i", "v", "i", "n", "e", " ", "a", "n", "d",
                    " ", "3", "0", " ", "c", "h", "a", "o", "s">>

\* C15's case: the event of "[t] @From bob: 2 divine and 30 chaos ..." with an
\* amount written with two spaces after it, before the stash marker
C15_Witness ==
    /\ ex_result # <<>>
    /\ ex_result[1].outcome = "event"
    /\ Len(ex_pieces) = 5
    /\ SubSeq(ex_pieces, 1, 4) = <<"hdr", "2d", "30c", "7c">>
    /\ Len(ex_result[1].match) = 3

\* the state of a pipeline in the terms of the state machine: Idle before its
\* thread is started, Running inside an iteration of "while self.running"
\* (the test of the flag, the open, the tailing, a send), ErrorBackoff in the
\* sleep of the outer handler, Stopped once watch_file has returned
StateOf(g) ==
    CASE pc[g] = "idle" -> "Idle"
      [] pc[g] \in {"top", "follow", "send"} -> "Running"
      [] pc[g] = "backoff" -> "ErrorBackoff"
      [] pc[g] = "exited" -> "Stopped"

\* C16: a pipeline changes state only from Idle to Running, from Running to
\* ErrorBackoff, from ErrorBackoff to Running and from Running to Stopped.
C16_StateMachine ==
    [][\A g \in GameIds :
         StateOf(g)' # StateOf(g) =>
            <<StateOf(g), StateOf(g)'>> \in
                {<<"Idle", "Running">>, <<"Running", "ErrorBackoff">>,
                 <<"ErrorBackoff", "Running">>, <<"Running", "Stopped">>}]_vars

\* C16's case: a pipeline that tailed its file, went through ErrorBackoff
\* (only an error takes a tailing pipeline back to the test of the flag) and
\* has stopped
C16_Witness ==
    \E g \in GameIds :
        /\ pc[g] = "exited"
        /\ yielded[g] # <<>>

\* C17: the stop flag only goes from not-stopped to stopped, in a step of the
\* supervisor's interrupt handler that touches no pipeline; a step of a
\* launched pipeline writes neither the flag, nor the supervisor's state, nor
\* another pipeline's state.
C17_StopFlag ==
    [][/\ running' # running =>
            /\ running /\ ~running'
            /\ supPc = "wait" /\ supPc' = "join"
            /\ \A g \in GameIds : PipelineState(g)' = PipelineState(g)
       /\ \A g \in GameIds :
            (pc[g] # "idle" /\ PipelineState(g)' # PipelineState(g)) =>
                /\ running' = running
                /\ <<supPc, supIdx, watchers>>' = <<supPc, supIdx, watchers>>
                /\ \A h \in GameIds \ {g} : PipelineState(h)' = PipelineState(h)
      ]_vars

\* C17's case: the flag has been cleared and a pipeline has read it
C17_Witness ==
    /\ ~running
    /\ \E g \in GameIds : pc[g] = "exited"

\* the line holds the marker and, before the first " (stash", a match
Candidate(pieces) == HasMarker(pieces) /\ AmountsBeforeStash(pieces) # <<>>

\* C18: send_message is called for a line only if the line holds '@From' and
\* the text before the first '(stash' holds a match; for every other line
\* nothing is built, nothing is sent and nothing is raised.
C18_SendOnlyCandidates ==
    ex_result # <<>> =>
        /\ ex_result[1].sent # <<>> => Candidate(ex_pieces)
        /\ ~Candidate(ex_pieces) =>
              /\ ex_result[1].outcome = "none"
              /\ ex_result[1].sent = <<>>
              /\ ex_result[1].message = <<>> /\ ex_result[1].price = <<>>

\* C18's case: a handled line with an amount before any '(stash' but without
\* the marker
C18_Witness ==
    /\ ex_result # <<>>
    /\ ~HasMarker(ex_pieces)
    /\ AmountsBeforeStash(ex_pieces) # <<>>
    /\ ex_result[1].sent = <<>>

\* C19: every line follow hands to the loop body has had its trailing newline
\* stripped, and the 'Trade Message' of the event built from it does not end
\* with a newline.
C19_NewlineStripped ==
    \A g \in GameIds : \A i \in 1..Len(yielded[g]) :
        \E line \in {LineText(PathOf(g), yielded[g][i])} :
            /\ ~EndsNL(line)
            /\ (IsTrade(line) /\ ~RaisesIndexError(line)) =>
                  ~EndsNL(TradeMessage(line))

\* C20: no two pipelines launched by one run tail the same path, and no line
\* of a file is notified by two pipelines.
C20_OnePipelinePerFile ==
    \A g \in Launched : \A h \in Launched \ {g} :
        /\ PathOf(g) # PathOf(h)
        /\ \A i \in 1..Len(sendLog[g]), j \in 1..Len(sendLog[h]) :
              ~(/\ PathOf(g) = PathOf(h)
                /\ sendLog[g][i].line = sendLog[h][j].line)

\* how many of the first j pieces hold a match
AmountsUpTo(pieces, j) ==
    Cardinality({k \in 1..j : Rendered(pieces[k]) # <<>>})

\* C21: with the default list, "divines" is never the currency of a match: the
\* text " 4 divines", where it is searched, gives the pair ("4", "divine").
C21_DivinesNeverExtracted ==
    ex_result # <<>> =>
        /\ \A k \in 1..Len(ex_result[1].match) :
              ex_result[1].match[k][2] # currency[3]
        /\ HasMarker(ex_pieces) =>
              \A j \in 1..(FirstStash(ex_pieces) - 1) :
                  ex_pieces[j] = "4ds" =>
                      ex_result[1].match[AmountsUpTo(ex_pieces, j)] =
                          << <<"4">>, <<"d", "i", "v", "i", "n", "e">> >>

\* C21's case: an event built from a line with " 4 divines" before any
\* '(stash'
C21_Witness ==
    /\ ex_result # <<>>
    /\ ex_result[1].outcome = "event"
    /\ \E j \in 1..(FirstStash(ex_pieces) - 1) : ex_pieces[j] = "4ds"

\* pipeline g holds its file open
Tailing(g) == pc[g] \in {"follow", "send"}

\* C22: what follow yields is, each time, the next whole newline-terminated
\* line after its position (nothing skipped, nothing yielded in parts), and
\* a pipeline that holds its file open does not leave it with a complete
\* line still unread: only lines appended before the open or during
\* ErrorBackoff are lost.
C22_EveryLineOnce ==
    [][\A g \in GameIds :
         /\ yielded'[g] # yielded[g] =>
               \E r \in {Last(yielded'[g])}, f \in {file[PathOf(g)]} :
                  /\ r[1] = pos[g] + 1
                  /\ EndsNL(f[r[2]])
                  /\ \A j \in r[1]..(r[2] - 1) : ~EndsNL(f[j])
                  /\ r[1] > openEnd[g] + 1 => EndsNL(f[r[1] - 1])
         /\ (Tailing(g) /\ ~Tailing(g)') =>
               \A j \in (pos'[g] + 1)..Len(file'[PathOf(g)]) :
                  ~EndsNL(file'[PathOf(g)][j])
      ]_vars

=============================================================================
